---- MODULE Spec2Model ----
(***************************************************************************)
(* Model of the training loop of notebooks/training.py (lines 230-302):   *)
(* the replay buffer written by rb.extend, the milestone test on          *)
(* prev_max, the lookup of the episode span around i_max, the truncation  *)
(* warning, the hand-off to render_trajectory and the exit test.          *)
(* The optimisation steps (lines 278-300) touch none of this state and    *)
(* are left out.  Indices are 0-based as in the source; the sequence rb   *)
(* is 1-based, so storage index i is rb[i + 1].                           *)
(***************************************************************************)
EXTENDS Integers, Sequences, FiniteSets

\* args.buffer_length and args.steps_per_batch, scaled down
BufferLength == 3
StepsPerBatch == 1

\* line 241: max_snake_length > 5 ; line 301: max_snake_length == 100
Threshold == 5
Target == 100

\* the value of a local that the iteration did not assign
None == -1

\* snake lengths the environment reports: at the threshold, above it,
\* at the target and above the target
Lengths == {5, 6, 100, 101}

\* a transition record; the environment sets done whenever it sets truncated
Records ==
  {r \in [done : BOOLEAN, truncated : BOOLEAN, snake_length : Lengths] :
      r.truncated => r.done}

\* one batch of the collector: frames_per_batch records
Batches == [1..StepsPerBatch -> Records]

VARIABLES rb, cursor, prev_max, pc, max_snake_length, i_max, i_start, i_end,
          trajectory, warned, handed, casts, outcome, mkdir_failed

vars == <<rb, cursor, prev_max, pc, max_snake_length, i_max, i_start, i_end,
          trajectory, warned, handed, casts, outcome, mkdir_failed>>

\* ------------------------------------------------------------------------
\* the replay buffer

\* rb.extend writes one record at the write cursor, which wraps at capacity
Write1(s, r) ==
  [buf |-> IF Len(s.buf) < BufferLength
             THEN Append(s.buf, r)
             ELSE [s.buf EXCEPT ![s.cur + 1] = r],
   cur |-> (s.cur + 1) % BufferLength]

RECURSIVE ExtendFrom(_, _, _)
ExtendFrom(s, data, k) ==
  IF k > Len(data) THEN s ELSE ExtendFrom(Write1(s, data[k]), data, k + 1)

\* rb.extend(data)
Extend(buf, cur, data) == ExtendFrom([buf |-> buf, cur |-> cur], data, 1)

RECURSIVE MaxFrom(_, _, _)
MaxFrom(buf, k, m) ==
  IF k > Len(buf) THEN m
  ELSE MaxFrom(buf, k + 1, IF buf[k].snake_length > m THEN buf[k].snake_length ELSE m)

\* rb[:]["next", "snake_length"].max()
MaxSnakeLength(buf) == MaxFrom(buf, 2, buf[1].snake_length)

RECURSIVE FirstAt(_, _, _)
FirstAt(buf, i, m) ==
  IF buf[i + 1].snake_length = m THEN i ELSE FirstAt(buf, i + 1, m)

\* rb["next", "snake_length"].argmax(): the first index of the maximum
ArgMax(buf) == FirstAt(buf, 0, MaxSnakeLength(buf))

\* ------------------------------------------------------------------------
\* the body of the loop

NewMilestoneRepeat(mx, prev) == mx >= prev /\ mx > Threshold

\* line 241
NewMilestone(mx, prev) == mx > prev /\ mx > Threshold

\* done[lo:hi].argwhere()[:, 0] + lo: the indices lo <= i < hi with done set,
\* in increasing order
RECURSIVE ArgWhere(_, _, _)
ArgWhere(buf, lo, hi) ==
  IF lo >= hi THEN <<>>
  ELSE IF buf[lo + 1].done THEN <<lo>> \o ArgWhere(buf, lo + 1, hi)
  ELSE ArgWhere(buf, lo + 1, hi)

\* rb["next", "done"][:i_max].argwhere()
DoneBefore(buf, im) == ArgWhere(buf, 0, im)

IStartFirst(buf, im) == DoneBefore(buf, im)[1] + 1

\* line 243: [-1][0] + 1, defined when DoneBefore is not empty
IStart(buf, im) == DoneBefore(buf, im)[Len(DoneBefore(buf, im))] + 1

\* line 244: i_max + rb["next", "done"][i_max:].argwhere()
DoneFrom(buf, im) == ArgWhere(buf, im, Len(buf))

\* line 245: i_end.numel is the method itself, which never equals 0
NumelIsZero(hits) == FALSE

\* line 250: i_end[0, 0], defined when DoneFrom is not empty
IEnd(hits) == hits[1]

WarnOnDone(buf, ie) == buf[ie + 1].done

\* line 252: rb["next", "truncated"][i_end].item()
Warn(buf, ie) == buf[ie + 1].truncated

\* line 264: rb["next"][i_start : i_end + 1]
Trajectory(buf, is, ie) == SubSeq(buf, is + 1, ie + 1)

\* lines 301-302
BreakCheck(mx) == IF mx = Target THEN "break" ELSE "loop"

PcAfterRecordingSwallow(mkdir_ok, mx) == BreakCheck(mx)

\* lines 268-302: an error of video_dir.mkdir is not caught
PcAfterRecording(mkdir_ok, mx) ==
  IF mkdir_ok THEN BreakCheck(mx) ELSE "raised"

Locals(im, is, ie, tr, w, h) ==
  [i_max |-> im, i_start |-> is, i_end |-> ie, trajectory |-> tr,
   warned |-> w, handed |-> h]

\* lines 241-302 on the buffer after rb.extend
Body(buf, prev, cs, mkdir_ok) ==
  LET mx == MaxSnakeLength(buf) IN
  IF ~NewMilestone(mx, prev)
    THEN [loc |-> Locals(None, None, None, <<>>, FALSE, <<>>),
          prev_max |-> prev, casts |-> cs, outcome |-> "no_milestone",
          pc |-> BreakCheck(mx)]
  ELSE LET im == ArgMax(buf) IN
  IF DoneBefore(buf, im) = <<>>
    THEN [loc |-> Locals(im, None, None, <<>>, FALSE, <<>>),
          prev_max |-> prev, casts |-> cs, outcome |-> "IndexError_i_start",
          pc |-> "raised"]
  ELSE LET is == IStart(buf, im)
           hits == DoneFrom(buf, im) IN
  IF NumelIsZero(hits)
    THEN [loc |-> Locals(im, is, None, <<>>, FALSE, <<>>),
          prev_max |-> prev, casts |-> cs, outcome |-> "deferred",
          pc |-> "loop"]
  ELSE IF hits = <<>>
    THEN [loc |-> Locals(im, is, None, <<>>, FALSE, <<>>),
          prev_max |-> prev, casts |-> cs, outcome |-> "IndexError_i_end",
          pc |-> "raised"]
  ELSE LET ie == IEnd(hits)
           tr == Trajectory(buf, is, ie) IN
  IF ~mkdir_ok
    THEN [loc |-> Locals(im, is, ie, tr, Warn(buf, ie), <<>>),
          prev_max |-> mx, casts |-> cs, outcome |-> "OSError_mkdir",
          pc |-> PcAfterRecording(mkdir_ok, mx)]
    ELSE [loc |-> Locals(im, is, ie, tr, Warn(buf, ie), tr),
          prev_max |-> mx, casts |-> Append(cs, mx), outcome |-> "recorded",
          pc |-> PcAfterRecording(mkdir_ok, mx)]

Init ==
  /\ rb = <<>>
  /\ cursor = 0
  /\ prev_max = 0
  /\ pc = "loop"
  /\ max_snake_length = None
  /\ i_max = None
  /\ i_start = None
  /\ i_end = None
  /\ trajectory = <<>>
  /\ warned = FALSE
  /\ handed = <<>>
  /\ casts = <<>>
  /\ outcome = "init"
  /\ mkdir_failed = FALSE

\* one iteration of `for i, data in enumerate(collector)`
LoopIteration(data, mkdir_ok) ==
  /\ pc = "loop"
  /\ \E s \in {Extend(rb, cursor, data)} :
     \E b \in {Body(s.buf, prev_max, casts, mkdir_ok)} :
        \* the result of video_dir.mkdir is an input only where it is called
        /\ mkdir_ok \/ b.loc.i_end /= None
        /\ rb' = s.buf
        /\ cursor' = s.cur
        /\ max_snake_length' = MaxSnakeLength(s.buf)
        /\ prev_max' = b.prev_max
        /\ i_max' = b.loc.i_max
        /\ i_start' = b.loc.i_start
        /\ i_end' = b.loc.i_end
        /\ trajectory' = b.loc.trajectory
        /\ warned' = b.loc.warned
        /\ handed' = b.loc.handed
        /\ casts' = b.casts
        /\ outcome' = b.outcome
        /\ mkdir_failed' = (b.loc.i_end /= None /\ ~mkdir_ok)
        /\ pc' = b.pc

Next == \E data \in Batches, mkdir_ok \in BOOLEAN : LoopIteration(data, mkdir_ok)

Spec == Init /\ [][Next]_vars

\* ------------------------------------------------------------------------
\* properties

\* the branch of line 241 was taken in the last iteration
Detected == i_max /= None

HasDoneBefore == \E j \in 0..(i_max - 1) : rb[j + 1].done

HasDoneFrom == \E k \in i_max..(Len(rb) - 1) : rb[k + 1].done

\* the nearest done record before i_max, and the first one from i_max on
IsLastDoneBefore(j) ==
  /\ j \in 0..(i_max - 1)
  /\ rb[j + 1].done
  /\ \A k \in (j + 1)..(i_max - 1) : ~rb[k + 1].done

IsFirstDoneFrom(k) ==
  /\ k \in i_max..(Len(rb) - 1)
  /\ rb[k + 1].done
  /\ \A j \in i_max..(k - 1) : ~rb[j + 1].done

\* position of storage index i in insertion order: once the buffer is full
\* the oldest record is the one at the write cursor
Order(i) ==
  IF Len(rb) < BufferLength THEN i
  ELSE (i - cursor + BufferLength) % BufferLength

StrictlyIncreasing(s) == \A a, b \in 1..Len(s) : a < b => s[a] < s[b]

\* C1: in an iteration that detects a milestone at i_max (with the span start
\* found) while no done record exists at or after i_max, the attempt is
\* deferred: no error is raised, nothing is extracted or handed to
\* render_trajectory, and prev_max keeps its value.
C1_Deferred ==
  [][(Detected' /\ HasDoneBefore' /\ ~HasDoneFrom')
       => /\ pc' /= "raised"
          /\ trajectory' = <<>>
          /\ handed' = <<>>
          /\ prev_max' = prev_max]_vars

\* C2: a milestone whose episode has not finished is never lost: after the
\* iteration that met it the loop is still running and the milestone test
\* of line 241 still holds, so that a later iteration retries it.
C2_NeverLost ==
  (Detected /\ HasDoneBefore /\ ~HasDoneFrom)
    => (pc = "loop" /\ NewMilestone(max_snake_length, prev_max))

\* C3: when no record before i_max has done set, the span start is 0.
C3_FirstEpisodeStart ==
  (Detected /\ ~HasDoneBefore) => i_start = 0

\* C4: when a record before i_max has done set, the span start is j + 1 for
\* the largest such index j; a done record at i_max itself does not count.
C4_StartAfterNearestDone ==
  (Detected /\ HasDoneBefore)
    => \E j \in 0..(i_max - 1) : IsLastDoneBefore(j) /\ i_start = j + 1

C4_Witness ==
  /\ Detected
  /\ i_max = 2
  /\ rb[1].done /\ rb[2].done /\ rb[3].done
  /\ i_start = 2

\* C5: when a done record exists at or after i_max, i_end is the smallest
\* index k >= i_max with done set and the extracted trajectory is exactly the
\* records i_start..i_end, the end record included.
C5_SpanEnd ==
  (Detected /\ HasDoneFrom)
    => /\ i_start /= None
       /\ \E k \in i_max..(Len(rb) - 1) : IsFirstDoneFrom(k) /\ i_end = k
       /\ trajectory = [n \in 1..(i_end - i_start + 1) |-> rb[i_start + n]]

C7_TruncatedOnlyWarns ==
  i_end /= None
    => /\ warned = rb[i_end + 1].truncated
       /\ prev_max = max_snake_length
       /\ trajectory = [n \in 1..(i_end - i_start + 1) |-> rb[i_start + n]]
       /\ ~mkdir_failed => (handed = trajectory /\ outcome = "recorded")

C7_Witness ==
  /\ i_end /= None
  /\ rb[i_end + 1].truncated
  /\ warned
  /\ Len(trajectory) >= 2
  /\ handed = trajectory

\* C8 as stated: a failure of video_dir.mkdir does not stop the loop.
C8_LoopGoesOn == mkdir_failed => pc /= "raised"

\* C8 as amended: a failure of video_dir.mkdir propagates out of the loop;
\* nothing is handed to render_trajectory and no later batch is processed.
C8_Propagates ==
  [][/\ mkdir_failed' => (pc' = "raised" /\ handed' = <<>> /\ casts' = casts)
     /\ ~mkdir_failed]_vars

C8_Witness == mkdir_failed /\ pc = "raised" /\ prev_max = max_snake_length

\* C9: an extracted span satisfies i_start <= i_max <= i_end, holds no done
\* record except at i_end, and its records are consecutive in insertion
\* order, also after the buffer has wrapped.
C9_OneEpisode ==
  i_end /= None
    => /\ i_start <= i_max /\ i_max <= i_end
       /\ \A i \in i_start..(i_end - 1) : ~rb[i + 1].done
       /\ \A i \in i_start..(i_end - 1) : Order(i + 1) = Order(i) + 1

\* C10: the loop exits at the end of the first iteration in which the
\* maximum in the buffer is 100 or more, and in no earlier iteration.
C10_ExitsAtTarget ==
  /\ (pc /= "raised" /\ max_snake_length >= Target) => pc = "break"
  /\ pc = "break" => max_snake_length >= Target

====
